---- MODULE Spec2Model ----
(***************************************************************************)
(* Model of the TM1638 LED/keypad driver (src/TM1638.c, src/TM1638.h).     *)
(*                                                                         *)
(* Every public operation of the driver is one action.  An operation is    *)
(* translated into the exact sequence of HAL pin events it performs        *)
(* (HAL_GPIO_WritePin, HAL_GPIO_ReadPin, HAL_GPIO_Init); the sequence is   *)
(* kept in the variable bus and is fed, event by event, to a model of the  *)
(* chip on the other end of the three wires, which assembles the bytes     *)
(* clocked in between strobe-low and strobe-high and executes them.        *)
(***************************************************************************)
EXTENDS Integers, Sequences, FiniteSets, TLC

VARIABLES
    tm,       \* the TM1638 handle
    chip,     \* the three wires, the data pin mode and the chip behind them
    bus,      \* the pin events of the last operation (of the last scan of
              \* a blocking read)
    call,     \* the last public operation called and its arguments
    ret,      \* its return value (NoRet: void, or not returned yet)
    pc,       \* where tm1638_read_key_blocking stands
    buttons,  \* the local variable buttons of tm1638_read_key_blocking
    nops      \* number of public operations called so far

vars == <<tm, chip, bus, call, ret, pc, buttons, nops>>

(***************************************************************************)
(* Bounds of the model.                                                    *)
(***************************************************************************)
\* number of public operations in one run of the general specification
MaxOps == 2
\* longest text enumerated character by character
MaxLen == 3

(***************************************************************************)
(* Fixed-width integer helpers.                                            *)
(***************************************************************************)
Pow2(n) == 2 ^ n

Bit(v, k) == (v \div Pow2(k)) % 2

\* uint8_t conversion of an int
U8(x) == x % 256

\* int8_t conversion of an int (two's complement wrap, as the target does)
I8(x) == ((x + 128) % 256) - 128

\* bitwise OR / AND of two bytes
Or8(a, b) ==
    LET bitOr(k) == IF Bit(a, k) = 1 \/ Bit(b, k) = 1 THEN Pow2(k) ELSE 0
    IN  bitOr(0) + bitOr(1) + bitOr(2) + bitOr(3)
        + bitOr(4) + bitOr(5) + bitOr(6) + bitOr(7)

And8(a, b) ==
    LET bitAnd(k) == IF Bit(a, k) = 1 /\ Bit(b, k) = 1 THEN Pow2(k) ELSE 0
    IN  bitAnd(0) + bitAnd(1) + bitAnd(2) + bitAnd(3)
        + bitAnd(4) + bitAnd(5) + bitAnd(6) + bitAnd(7)

(***************************************************************************)
(* Command constants.                                                      *)
(***************************************************************************)
CMD_DATA_SET_AUTO_INC == 64
CMD_DATA_READ == 66
CMD_ADDRESS_SET == 192
CMD_DISPLAY_CTRL == 128
DISPLAY_ON_MASK == 8
DISPLAY_BRIGHTNESS_MASK == 7

(***************************************************************************)
(* Pin events.  A write event carries the level driven, a read event the   *)
(* level sampled, a mode event the new configuration of the pin.           *)
(***************************************************************************)
WritePin(pin, level) == [op |-> "write", pin |-> pin, val |-> level]

ReadPin(pin, level) == [op |-> "read", pin |-> pin, val |-> level]

GPIO_Init(pin, mode, pull) ==
    [op |-> "mode", pin |-> pin, val |-> mode, pull |-> pull]

GPIO_MODE_INPUT == 0
GPIO_MODE_OUTPUT_PP == 1
GPIO_NOPULL == 0
GPIO_PULLUP == 1

tm1638_sdo_high(h) == <<WritePin(h.dio_pin, 1)>>
tm1638_sdo_low(h) == <<WritePin(h.dio_pin, 0)>>
tm1638_stb_high(h) == <<WritePin(h.stb_pin, 1)>>
tm1638_stb_low(h) == <<WritePin(h.stb_pin, 0)>>
tm1638_clk_high(h) == <<WritePin(h.clk_pin, 1)>>
tm1638_clk_low(h) == <<WritePin(h.clk_pin, 0)>>

tm1638_start_transmission(h) == tm1638_stb_low(h)

tm1638_end_transmission(h) == tm1638_stb_high(h)

\* variant of ShiftedData: data is never shifted
ShiftedData_NoShift(data, i) == data

\* the value of the local variable data at the start of iteration i
ShiftedData(data, i) == data \div Pow2(i)

\* one iteration of the loop of tm1638_send_data
SendBit(h, data, i) ==
    tm1638_clk_low(h)
    \o (IF And8(ShiftedData(data, i), 1) /= 0
        THEN tm1638_sdo_high(h) ELSE tm1638_sdo_low(h))
    \o tm1638_clk_high(h)

tm1638_send_data(h, data) ==
    SendBit(h, data, 0) \o SendBit(h, data, 1) \o SendBit(h, data, 2)
    \o SendBit(h, data, 3) \o SendBit(h, data, 4) \o SendBit(h, data, 5)
    \o SendBit(h, data, 6) \o SendBit(h, data, 7)

\* variant of tm1638_send_command: the frame is left open
tm1638_send_command_NoEnd(h, cmd) ==
    tm1638_start_transmission(h) \o tm1638_send_data(h, cmd)

tm1638_send_command(h, cmd) ==
    tm1638_start_transmission(h)
    \o tm1638_send_data(h, cmd)
    \o tm1638_end_transmission(h)

(***************************************************************************)
(* Public operations as pin-event sequences and handle updates.            *)
(***************************************************************************)
\* variant of ClampBrightness: the value is masked, not clamped
ClampBrightness_Masked(brightness) == brightness % 8

\* tm1638_set_brightness: the clamped brightness
ClampBrightness(brightness) == IF brightness > 7 THEN 7 ELSE brightness

\* tm1638_set_brightness: the command byte
BrightnessCommand(brightness) ==
    Or8(Or8(CMD_DISPLAY_CTRL, DISPLAY_ON_MASK), ClampBrightness(brightness))

\* variant of set_brightness_tm: the value is stored as given
set_brightness_tm_Unclamped(h, brightness) ==
    [h EXCEPT !.brightness = brightness]

\* tm1638_set_brightness: the handle after the call
set_brightness_tm(h, brightness) ==
    [h EXCEPT !.brightness = ClampBrightness(brightness)]

\* tm1638_set_brightness: the pin events of the call
set_brightness_bus(h, brightness) ==
    tm1638_send_command(h, BrightnessCommand(brightness))

\* variant of ClearLoop: the loop stops one register short
RECURSIVE ClearLoop_OneShort(_, _)
ClearLoop_OneShort(h, i) ==
    IF i < 15 THEN tm1638_send_data(h, 0) \o ClearLoop_OneShort(h, i + 1)
    ELSE <<>>

\* the 16 zero bytes written by the loop of tm1638_display_clear
RECURSIVE ClearLoop(_, _)
ClearLoop(h, i) ==
    IF i < 16 THEN tm1638_send_data(h, 0) \o ClearLoop(h, i + 1) ELSE <<>>

display_clear_bus(h) ==
    tm1638_send_command(h, CMD_DATA_SET_AUTO_INC)
    \o tm1638_start_transmission(h)
    \o tm1638_send_data(h, CMD_ADDRESS_SET)
    \o ClearLoop(h, 0)
    \o tm1638_end_transmission(h)

\* variant of InitBrightness: the value is clamped, not masked
InitBrightness_Clamped(brightness) == IF brightness > 7 THEN 7 ELSE brightness

\* tm1638_init: the brightness stored before the display is cleared
InitBrightness(brightness) == And8(brightness, DISPLAY_BRIGHTNESS_MASK)

init_tm(h, brightness) ==
    LET h1 == [h EXCEPT !.brightness = InitBrightness(brightness)]
    IN  set_brightness_tm(h1, h1.brightness)

init_bus(h, brightness) ==
    LET h1 == [h EXCEPT !.brightness = InitBrightness(brightness)]
    IN  display_clear_bus(h1) \o set_brightness_bus(h1, h1.brightness)

\* variant of InvalidPosition: position 0 and position 9 pass
InvalidPosition_Loose(position) == position < 0 \/ position > 9

\* the guard shared by set_segment, set_led and display_char
InvalidPosition(position) == position < 1 \/ position > 8

\* variant of SegmentAddress: the position is not doubled
SegmentAddress_NotDoubled(position) == U8(CMD_ADDRESS_SET + (position - 1))

SegmentAddress(position) == U8(CMD_ADDRESS_SET + (2 * (position - 1)))

\* variant of LedAddress: the - 1 is missing
LedAddress_OffByOne(position) == U8(CMD_ADDRESS_SET + (2 * position))

LedAddress(position) == U8(CMD_ADDRESS_SET + (2 * position) - 1)

set_segment_bus(h, position, data) ==
    IF InvalidPosition(position) THEN <<>>
    ELSE tm1638_start_transmission(h)
         \o tm1638_send_data(h, SegmentAddress(position))
         \o tm1638_send_data(h, data)
         \o tm1638_end_transmission(h)

set_led_bus(h, position, on) ==
    IF InvalidPosition(position) THEN <<>>
    ELSE tm1638_start_transmission(h)
         \o tm1638_send_data(h, LedAddress(position))
         \o tm1638_send_data(h, IF on THEN 1 ELSE 0)
         \o tm1638_end_transmission(h)

(***************************************************************************)
(* Segment encoder.  Characters are their ASCII codes.                     *)
(***************************************************************************)
SegmentTable ==
    (48 :> 63) @@ (49 :> 6) @@ (50 :> 91) @@ (51 :> 79) @@ (52 :> 102)
    @@ (53 :> 109) @@ (54 :> 125) @@ (55 :> 7) @@ (56 :> 127) @@ (57 :> 111)
    @@ (65 :> 119) @@ (66 :> 127) @@ (67 :> 57) @@ (68 :> 63) @@ (69 :> 121)
    @@ (70 :> 113) @@ (71 :> 125) @@ (72 :> 118) @@ (73 :> 6) @@ (74 :> 14)
    @@ (76 :> 56) @@ (79 :> 63) @@ (80 :> 115) @@ (83 :> 109) @@ (85 :> 62)
    @@ (97 :> 95) @@ (98 :> 124) @@ (99 :> 88) @@ (100 :> 94) @@ (102 :> 113)
    @@ (103 :> 111) @@ (104 :> 116) @@ (105 :> 4) @@ (110 :> 84)
    @@ (111 :> 92) @@ (114 :> 80) @@ (116 :> 120) @@ (117 :> 28)
    @@ (121 :> 110)
    @@ (32 :> 0) @@ (95 :> 8) @@ (45 :> 64)

\* variant of char_to_segment_code: a lowercase letter without a case of
\* its own takes the pattern of its uppercase form
char_to_segment_code_CaseFolded(c) ==
    IF c \in DOMAIN SegmentTable THEN SegmentTable[c]
    ELSE IF c \in 97..122 /\ (c - 32) \in DOMAIN SegmentTable
    THEN SegmentTable[c - 32]
    ELSE 0

char_to_segment_code(c) ==
    IF c \in DOMAIN SegmentTable THEN SegmentTable[c] ELSE 0

\* variant of CharPattern: the dot sets bit 0
CharPattern_DotLow(c, dot) ==
    IF dot THEN Or8(char_to_segment_code(c), 1) ELSE char_to_segment_code(c)

\* tm1638_display_char: the pattern handed to tm1638_set_segment
CharPattern(c, dot) ==
    IF dot THEN Or8(char_to_segment_code(c), 128) ELSE char_to_segment_code(c)

display_char_bus(h, position, c, dot) ==
    IF InvalidPosition(position) THEN <<>>
    ELSE set_segment_bus(h, position, CharPattern(c, dot))

(***************************************************************************)
(* Text layout (tm1638_display_txt).  A text is a sequence of character    *)
(* codes; C index i is element i + 1.  display_buf and dots are indexed    *)
(* 0..7 as in the code.  reads and writes collect the indices used.        *)
(***************************************************************************)
DOT == 46
SPACE == 32

\* the test of the while loop
ScanCond(s) == s.str_idx >= 0 /\ s.buf_idx >= 0

\* variant of ScanStep: a dot marks dots[buf_idx + 1] without the test
\* buf_idx < 7
ScanStep_NoDotCheck(str, s) ==
    IF str[s.str_idx + 1] = DOT
    THEN [s EXCEPT !.dots = [@ EXCEPT ![s.buf_idx + 1] = TRUE],
                   !.writes = @ \cup {s.buf_idx + 1},
                   !.reads = @ \cup {s.str_idx},
                   !.str_idx = I8(@ - 1)]
    ELSE [s EXCEPT !.display_buf = [@ EXCEPT ![s.buf_idx] = str[s.str_idx + 1]],
                   !.writes = @ \cup {s.buf_idx},
                   !.reads = @ \cup {s.str_idx},
                   !.buf_idx = I8(@ - 1),
                   !.str_idx = I8(@ - 1)]

\* the body of the while loop: one iteration from the locals s
ScanStep(str, s) ==
    IF str[s.str_idx + 1] = DOT
    THEN IF s.buf_idx < 7
         THEN [s EXCEPT !.dots = [@ EXCEPT ![s.buf_idx + 1] = TRUE],
                        !.writes = @ \cup {s.buf_idx + 1},
                        !.reads = @ \cup {s.str_idx},
                        !.str_idx = I8(@ - 1)]
         ELSE [s EXCEPT !.reads = @ \cup {s.str_idx},
                        !.str_idx = I8(@ - 1)]
    ELSE [s EXCEPT !.display_buf = [@ EXCEPT ![s.buf_idx] = str[s.str_idx + 1]],
                   !.writes = @ \cup {s.buf_idx},
                   !.reads = @ \cup {s.str_idx},
                   !.buf_idx = I8(@ - 1),
                   !.str_idx = I8(@ - 1)]

\* the backward scan: the locals after the while loop has run from s for at
\* most n iterations.  The iterations are split in halves, and the first half
\* is evaluated before the second starts, so that the evaluation stays
\* shallow.
RECURSIVE ScanBack(_, _, _)
ScanBack(str, s, n) ==
    IF n = 0 THEN s
    ELSE IF n = 1 THEN IF ScanCond(s) THEN ScanStep(str, s) ELSE s
    ELSE LET half == ScanBack(str, s, n \div 2)
         IN  IF half.str_idx \in -128..127
             THEN ScanBack(str, half, n - n \div 2)
             ELSE half

\* str_idx is at most 127 and goes down by one at every iteration: the loop
\* cannot run more often than this
ScanIterations == Pow2(7)

\* the locals of tm1638_display_txt after the backward scan
Layout(str) ==
    LET len == I8(Len(str))
        str_idx == I8(len - 1)
    IN  ScanBack(str,
                 [str_idx |-> str_idx, buf_idx |-> 7,
                  display_buf |-> [i \in 0..7 |-> SPACE],
                  dots |-> [i \in 0..7 |-> FALSE],
                  reads |-> {}, writes |-> {}],
                 ScanIterations)

\* the display loop of tm1638_display_txt, from index i on
RECURSIVE DisplayLoop(_, _, _)
DisplayLoop(h, lay, i) ==
    IF i < 8
    THEN display_char_bus(h, i + 1, lay.display_buf[i], lay.dots[i])
         \o DisplayLoop(h, lay, i + 1)
    ELSE <<>>

display_txt_bus(h, str) == DisplayLoop(h, Layout(str), 0)

(***************************************************************************)
(* Key scan.  line is the set of sample indices 0..31 at which the data    *)
(* line reads high; raw_key_data is kept as the set of its set bits (it is *)
(* a uint32_t in the code, too wide for a TLC integer).                    *)
(***************************************************************************)
\* the read loop of tm1638_scan_buttons, from iteration i on
RECURSIVE ReadLoop(_, _, _)
ReadLoop(h, line, i) ==
    IF i < 32
    THEN tm1638_clk_low(h)
         \o <<ReadPin(h.dio_pin, IF i \in line THEN 1 ELSE 0)>>
         \o tm1638_clk_high(h)
         \o ReadLoop(h, line, i + 1)
    ELSE <<>>

\* variant of scan_buttons_bus: the data line is left configured as input
scan_buttons_bus_NoRestore(h, line) ==
    tm1638_start_transmission(h)
    \o tm1638_send_data(h, CMD_DATA_READ)
    \o <<GPIO_Init(h.dio_pin, GPIO_MODE_INPUT, GPIO_PULLUP)>>
    \o ReadLoop(h, line, 0)
    \o tm1638_end_transmission(h)

scan_buttons_bus(h, line) ==
    tm1638_start_transmission(h)
    \o tm1638_send_data(h, CMD_DATA_READ)
    \o <<GPIO_Init(h.dio_pin, GPIO_MODE_INPUT, GPIO_PULLUP)>>
    \o ReadLoop(h, line, 0)
    \o tm1638_end_transmission(h)
    \o <<GPIO_Init(h.dio_pin, GPIO_MODE_OUTPUT_PP, GPIO_NOPULL)>>

\* raw_key_data after the read loop
RawKeyData(line) == {i \in 0..31 : i \in line}

\* one of the eight if statements of the decode
KeyIf(raw_key_data, rawbit, keybit) ==
    IF rawbit \in raw_key_data THEN Pow2(keybit) ELSE 0

\* variant of DecodeKeys: the raw bits are taken in ascending order
DecodeKeys_Ascending(raw_key_data) ==
    KeyIf(raw_key_data, 1, 0) + KeyIf(raw_key_data, 5, 1)
    + KeyIf(raw_key_data, 9, 2) + KeyIf(raw_key_data, 13, 3)
    + KeyIf(raw_key_data, 17, 4) + KeyIf(raw_key_data, 21, 5)
    + KeyIf(raw_key_data, 25, 6) + KeyIf(raw_key_data, 29, 7)

\* pressed_keys, the value tm1638_scan_buttons returns
DecodeKeys(raw_key_data) ==
    KeyIf(raw_key_data, 1, 0) + KeyIf(raw_key_data, 9, 1)
    + KeyIf(raw_key_data, 17, 2) + KeyIf(raw_key_data, 25, 3)
    + KeyIf(raw_key_data, 5, 4) + KeyIf(raw_key_data, 13, 5)
    + KeyIf(raw_key_data, 21, 6) + KeyIf(raw_key_data, 29, 7)

scan_buttons_ret(line) == DecodeKeys(RawKeyData(line))

\* variant of KeyNumber: the mask is searched from the highest bit down
RECURSIVE KeyNumber_FromTop(_, _)
KeyNumber_FromTop(mask, i) ==
    IF i < 8
    THEN IF And8(mask \div Pow2(7 - i), 1) /= 0 THEN 8 - i
         ELSE KeyNumber_FromTop(mask, i + 1)
    ELSE 0

\* the conversion loop of tm1638_read_key_blocking, from index i on
RECURSIVE KeyNumber(_, _)
KeyNumber(mask, i) ==
    IF i < 8
    THEN IF And8(mask \div Pow2(i), 1) /= 0 THEN i + 1
         ELSE KeyNumber(mask, i + 1)
    ELSE 0

(***************************************************************************)
(* The chip and the three wires.  The chip latches a command from the      *)
(* first byte clocked in after strobe goes low and treats the following    *)
(* bytes of the frame as register data.  It samples the data line on the   *)
(* rising clock edge, least-significant bit first.                         *)
(***************************************************************************)
STB == "STB"
CLK == "CLK"
DIO == "DIO"

\* a byte has been assembled: execute it
ByteIn(c, b) ==
    IF c.nbytes = 0
    THEN CASE b \div 64 = 1 ->
                [c EXCEPT !.datacmd = b, !.reading = (Bit(b, 1) = 1),
                          !.nbytes = 1]
           [] b \div 64 = 3 -> [c EXCEPT !.addr = b % 16, !.nbytes = 1]
           [] b \div 64 = 2 -> [c EXCEPT !.ctrl = b, !.nbytes = 1]
           [] OTHER -> [c EXCEPT !.nbytes = 1]
    ELSE IF Bit(c.datacmd, 1) = 0
         THEN [c EXCEPT !.regs[c.addr] = b,
                        !.addr = IF Bit(c.datacmd, 2) = 0
                                 THEN (c.addr + 1) % 16 ELSE c.addr,
                        !.nbytes = c.nbytes + 1]
         ELSE [c EXCEPT !.nbytes = c.nbytes + 1]

\* a rising clock edge inside a frame
ClockIn(c) ==
    IF c.reading
    THEN [c EXCEPT !.nread = c.nread + 1]
    ELSE LET cur == c.cur + c.dio * Pow2(c.nbits)
         IN  IF c.nbits = 7
             THEN [ByteIn(c, cur) EXCEPT !.nbits = 0, !.cur = 0,
                                         !.frame = Append(c.frame, cur)]
             ELSE [c EXCEPT !.nbits = c.nbits + 1, !.cur = cur]

\* the effect of one pin event on the wires and the chip
ChipStep(c, e) ==
    CASE e.op = "write" /\ e.pin = STB /\ e.val = 0 ->
            [c EXCEPT !.stb = 0, !.nbits = 0, !.cur = 0, !.nbytes = 0,
                      !.frame = <<>>, !.reading = FALSE, !.nread = 0]
      [] e.op = "write" /\ e.pin = STB /\ e.val = 1 ->
            IF c.stb = 0
            THEN [c EXCEPT !.stb = 1, !.reading = FALSE,
                           !.frames = Append(c.frames, c.frame)]
            ELSE c
      [] e.op = "write" /\ e.pin = CLK /\ e.val = 0 -> [c EXCEPT !.clk = 0]
      [] e.op = "write" /\ e.pin = CLK /\ e.val = 1 ->
            IF c.clk = 0 /\ c.stb = 0
            THEN [ClockIn(c) EXCEPT !.clk = 1]
            ELSE [c EXCEPT !.clk = 1]
      [] e.op = "write" /\ e.pin = DIO ->
            IF c.dir = GPIO_MODE_OUTPUT_PP THEN [c EXCEPT !.dio = e.val] ELSE c
      [] e.op = "mode" /\ e.pin = DIO -> [c EXCEPT !.dir = e.val]
      [] OTHER -> c

\* the events lo..hi in order.  The range is split in halves and the first
\* half is evaluated (the test on half.stb) before the second is entered, so
\* that the evaluation stays shallow.
RECURSIVE ChipFold(_, _, _, _)
ChipFold(c, events, lo, hi) ==
    IF lo > hi THEN c
    ELSE IF lo = hi THEN ChipStep(c, events[lo])
    ELSE LET mid == (lo + hi) \div 2
             half == ChipFold(c, events, lo, mid)
         IN  IF half.stb \in {0, 1}
             THEN ChipFold(half, events, mid + 1, hi)
             ELSE half

\* the chip after the pin events of one operation; frames lists the bytes
\* of every frame of that operation
ChipRun(c, events) ==
    ChipFold([c EXCEPT !.frames = <<>>], events, 1, Len(events))

(***************************************************************************)
(* Inputs.                                                                 *)
(***************************************************************************)
Byte == 0..255

SomeBrightness == {0, 7, 9}
SomePositions == {0, 1, 8, 9}
SomePatterns == {0, 255}
SomeChars == {49}
SomeTexts == {<<>>, <<49, 50, DOT, 51, 52>>,
              <<49, 50, 51, 52, 53, 54, 55, 56, 57>>}
SomeLines == {{}, {1}, {1, 9}}

\* register contents of the chip when the driver starts: not yet cleared,
\* every register different from 0 and from every other register
PowerOnRegs == [r \in 0..15 |-> 160 + r]

NoRet == -1

\* key scans: every combination of the eight key samples, with none, each
\* one or all of the other 24 samples high
KeyBits == {1, 9, 17, 25, 5, 13, 21, 29}
OtherBits == (0..31) \ KeyBits
Noise == {{}, OtherBits} \cup {{b} : b \in OtherBits}
AllLines == {k \cup n : k \in SUBSET KeyBits, n \in Noise}

\* polls of a blocking read: nothing pressed (with and without a stray
\* sample high), each single key, two keys, all keys
PollLines ==
    {{}, {0}} \cup {{b} : b \in KeyBits} \cup {{1, 9}, {5, 29}, KeyBits}

\* texts: every text of at most MaxLen characters over Alphabet, alone and
\* behind a run of digits, of dots or of digits and dots in turn
Alphabet == {49, 50, DOT}
ShortTexts == UNION {[1..n -> Alphabet] : n \in 0..MaxLen}
Digits(k) == [i \in 1..k |-> 49 + (i % 9)]
Dots(k) == [i \in 1..k |-> DOT]
Dotted(k) == [i \in 1..k |-> IF i % 2 = 0 THEN DOT ELSE 49 + (i % 9)]
DigitLens == {0, 5, 6, 7, 8, 124, 125, 126, 127, 128, 129, 130,
              252, 253, 254, 255, 256}
DotLens == {9, 127}
DottedLens == {13, 14, 15, 16, 17, 18}
Prefixes ==
    {Digits(k) : k \in DigitLens} \cup {Dots(k) : k \in DotLens}
    \cup {Dotted(k) : k \in DottedLens}
AllTexts == {p \o t : p \in Prefixes, t \in ShortTexts}

(***************************************************************************)
(* State machine.                                                          *)
(***************************************************************************)
Init ==
    /\ tm = [clk_pin |-> CLK, dio_pin |-> DIO, stb_pin |-> STB,
             brightness |-> 0]
    /\ chip = [stb |-> 1, clk |-> 1, dio |-> 0, dir |-> GPIO_MODE_OUTPUT_PP,
               nbits |-> 0, cur |-> 0, nbytes |-> 0, reading |-> FALSE,
               nread |-> 0, addr |-> 0, datacmd |-> CMD_DATA_SET_AUTO_INC,
               ctrl |-> CMD_DISPLAY_CTRL, regs |-> PowerOnRegs,
               frame |-> <<>>, frames |-> <<>>]
    /\ bus = <<>>
    /\ call = [op |-> "none", args |-> <<>>]
    /\ ret = NoRet
    /\ pc = "idle"
    /\ buttons = 0
    /\ nops = 0

\* a public operation is entered: the caller is not inside a blocking read
Enter(limit) ==
    /\ pc = "idle"
    /\ nops < limit
    /\ nops' = nops + 1

\* a non-blocking operation runs from call to return
Perform(op, args, h2, events, r) ==
    /\ tm' = h2
    /\ bus' = events
    /\ chip' = ChipRun(chip, events)
    /\ call' = [op |-> op, args |-> args]
    /\ ret' = r
    /\ UNCHANGED <<pc, buttons>>

tm1638_init(bs, limit) ==
    \E brightness \in bs :
        /\ Enter(limit)
        /\ Perform("init", <<brightness>>, init_tm(tm, brightness),
                   init_bus(tm, brightness), NoRet)

tm1638_set_brightness(bs, limit) ==
    \E brightness \in bs :
        /\ Enter(limit)
        /\ Perform("set_brightness", <<brightness>>,
                   set_brightness_tm(tm, brightness),
                   set_brightness_bus(tm, brightness), NoRet)

tm1638_display_clear(limit) ==
    /\ Enter(limit)
    /\ Perform("display_clear", <<>>, tm, display_clear_bus(tm), NoRet)

tm1638_display_char(ps, cs, limit) ==
    \E position \in ps, c \in cs, dot \in BOOLEAN :
        /\ Enter(limit)
        /\ Perform("display_char", <<position, c, dot>>, tm,
                   display_char_bus(tm, position, c, dot), NoRet)

tm1638_display_txt(ts, limit) ==
    \E str \in ts :
        /\ Enter(limit)
        /\ Perform("display_txt", <<str>>, tm, display_txt_bus(tm, str), NoRet)

tm1638_set_led(ps, limit) ==
    \E position \in ps, on \in BOOLEAN :
        /\ Enter(limit)
        /\ Perform("set_led", <<position, on>>, tm,
                   set_led_bus(tm, position, on), NoRet)

tm1638_set_segment(ps, ds, limit) ==
    \E position \in ps, data \in ds :
        /\ Enter(limit)
        /\ Perform("set_segment", <<position, data>>, tm,
                   set_segment_bus(tm, position, data), NoRet)

tm1638_scan_buttons(ls, limit) ==
    \E line \in ls :
        /\ Enter(limit)
        /\ Perform("scan_buttons", <<line>>, tm, scan_buttons_bus(tm, line),
                   scan_buttons_ret(line))

\* tm1638_read_key_blocking is called
tm1638_read_key_blocking(limit) ==
    /\ Enter(limit)
    /\ pc' = "wait_press"
    /\ buttons' = 0
    /\ call' = [op |-> "read_key_blocking", args |-> <<>>]
    /\ ret' = NoRet
    /\ bus' = <<>>
    /\ UNCHANGED <<tm, chip>>

\* variant of WaitPress: the first loop gives up after one scan
WaitPress_GivesUp(ls) ==
    \E line \in ls :
        /\ pc = "wait_press"
        /\ buttons' = scan_buttons_ret(line)
        /\ bus' = scan_buttons_bus(tm, line)
        /\ chip' = ChipRun(chip, bus')
        /\ pc' = "wait_release"
        /\ UNCHANGED <<tm, call, ret, nops>>

\* one iteration of the first loop: scan, and delay if nothing is pressed
WaitPress(ls) ==
    \E line \in ls :
        /\ pc = "wait_press"
        /\ buttons' = scan_buttons_ret(line)
        /\ bus' = scan_buttons_bus(tm, line)
        /\ chip' = ChipRun(chip, bus')
        /\ pc' = IF buttons' = 0 THEN "wait_press" ELSE "wait_release"
        /\ UNCHANGED <<tm, call, ret, nops>>

\* one iteration of the second loop: scan, delay if still pressed, else
\* convert the captured mask and return
WaitRelease(ls) ==
    \E line \in ls :
        /\ pc = "wait_release"
        /\ bus' = scan_buttons_bus(tm, line)
        /\ chip' = ChipRun(chip, bus')
        /\ IF scan_buttons_ret(line) /= 0
           THEN UNCHANGED <<pc, ret>>
           ELSE pc' = "idle" /\ ret' = KeyNumber(buttons, 0)
        /\ UNCHANGED <<tm, call, buttons, nops>>

\* any sequence of at most MaxOps public operations
Next ==
    \/ tm1638_init(SomeBrightness, MaxOps)
    \/ tm1638_set_brightness(SomeBrightness, MaxOps)
    \/ tm1638_display_clear(MaxOps)
    \/ tm1638_display_char(SomePositions, SomeChars, MaxOps)
    \/ tm1638_display_txt(SomeTexts, MaxOps)
    \/ tm1638_set_led(SomePositions, MaxOps)
    \/ tm1638_set_segment(SomePositions, SomePatterns, MaxOps)
    \/ tm1638_scan_buttons(SomeLines, MaxOps)
    \/ tm1638_read_key_blocking(MaxOps)
    \/ WaitPress(SomeLines)
    \/ WaitRelease(SomeLines)

Spec == Init /\ [][Next]_vars

\* every brightness value in the first call, some in the calls after it
NextBrightness ==
    \/ tm1638_init(Byte, 1)
    \/ tm1638_set_brightness(Byte, 1)
    \/ tm1638_init(SomeBrightness, MaxOps)
    \/ tm1638_set_brightness(SomeBrightness, MaxOps)

SpecBrightness == Init /\ [][NextBrightness]_vars

\* every valid position and every pattern in the first register write, a
\* few writes and a key scan after it
NextSeg ==
    \/ tm1638_set_segment(1..8, Byte, 1)
    \/ tm1638_set_led(1..8, 1)
    \/ tm1638_set_segment({8}, {255}, MaxOps)
    \/ tm1638_set_led({1}, MaxOps)
    \/ tm1638_scan_buttons({{}}, MaxOps)

SpecSeg == Init /\ [][NextSeg]_vars

\* every position 0..255 in the first call, a few calls after it
NextPos ==
    \/ tm1638_set_segment(Byte, {255}, 1)
    \/ tm1638_set_led(Byte, 1)
    \/ tm1638_display_char(Byte, SomeChars, 1)
    \/ tm1638_set_segment({0, 1}, {255}, MaxOps)
    \/ tm1638_set_led({9}, MaxOps)
    \/ tm1638_display_char({0}, SomeChars, MaxOps)

SpecPos == Init /\ [][NextPos]_vars

\* every key scan in AllLines first, one more scan after it
NextScan ==
    \/ tm1638_scan_buttons(AllLines, 1)
    \/ tm1638_scan_buttons({{1}}, MaxOps)

SpecScan == Init /\ [][NextScan]_vars

\* every text of AllTexts first, a short text after it
NextTxt ==
    \/ tm1638_display_txt(AllTexts, 1)
    \/ tm1638_display_txt({<<49>>}, MaxOps)

SpecTxt == Init /\ [][NextTxt]_vars

\* texts with letters, and with characters the encoder has no case for
LetterTexts == {<<72, 69, 76, 76, 79>>, <<97, DOT, 101, 63, 126, 80>>}

\* every position, character and dot value in the first tm1638_display_char,
\* short texts in the first tm1638_display_txt, a few calls after them
NextChar ==
    \/ tm1638_display_char(1..8, Byte, 1)
    \/ tm1638_display_txt(ShortTexts \cup LetterTexts, 1)
    \/ tm1638_display_char({8}, {101}, MaxOps)
    \/ tm1638_display_txt({<<49, DOT>>}, MaxOps)
    \/ tm1638_scan_buttons({{}}, MaxOps)

SpecChar == Init /\ [][NextChar]_vars

\* sequences of operations that begin with tm1638_init: MaxOps operations
\* follow it
NextInited ==
    \/ nops = 0 /\ tm1638_init(SomeBrightness, 1)
    \/ nops > 0 /\ tm1638_init(SomeBrightness, MaxOps + 1)
    \/ nops > 0 /\ tm1638_set_brightness(SomeBrightness, MaxOps + 1)
    \/ nops > 0 /\ tm1638_display_clear(MaxOps + 1)
    \/ nops > 0 /\ tm1638_display_char({1}, SomeChars, MaxOps + 1)
    \/ nops > 0 /\ tm1638_display_txt({<<49, DOT>>}, MaxOps + 1)
    \/ nops > 0 /\ tm1638_set_led({1}, MaxOps + 1)
    \/ nops > 0 /\ tm1638_set_segment({1}, {255}, MaxOps + 1)
    \/ nops > 0 /\ tm1638_scan_buttons({{}, {1}}, MaxOps + 1)
    \/ nops > 0 /\ tm1638_read_key_blocking(MaxOps + 1)
    \/ WaitPress({{}, {1}})
    \/ WaitRelease({{}, {1}})

SpecInited == Init /\ [][NextInited]_vars

\* blocking reads polled with PollLines
NextKey ==
    \/ tm1638_read_key_blocking(MaxOps)
    \/ WaitPress(PollLines)
    \/ WaitRelease(PollLines)

\* polls that see a key, polls that see none
PressLines == {l \in PollLines : scan_buttons_ret(l) /= 0}
ReleaseLines == {l \in PollLines : scan_buttons_ret(l) = 0}

\* the wires of the step are those of a scan that samples a line of ls
PollSees(ls) == \E line \in ls : bus' = scan_buttons_bus(tm, line)

\* The loops of a blocking read keep polling (HAL_Delay returns), and the
\* keypad is assumed to show a key to some poll of the first loop and no key
\* to some poll of the second.
SpecKey ==
    /\ Init
    /\ [][NextKey]_vars
    /\ WF_bus(pc = "wait_press" /\ PollSees(PressLines))
    /\ WF_bus(pc = "wait_release" /\ PollSees(ReleaseLines))

(***************************************************************************)
(* Observations shared by the properties.                                  *)
(***************************************************************************)
\* the last operation has returned
Returned(op) == call.op = op /\ pc = "idle"

\* this step is the call (and, unless blocking, the return) of op
Calls(op) == nops' = nops + 1 /\ call'.op = op

\* number of set bits of a byte
PopCount(v) ==
    Bit(v, 0) + Bit(v, 1) + Bit(v, 2) + Bit(v, 3)
    + Bit(v, 4) + Bit(v, 5) + Bit(v, 6) + Bit(v, 7)

ZeroRegs == [r \in 0..15 |-> 0]

\* every field of the chip and the wires except the log of frames
SameChip(c, d) == [c EXCEPT !.frames = <<>>] = [d EXCEPT !.frames = <<>>]

(***************************************************************************)
(* C1: tm1638_read_key_blocking returns 0 whenever the mask captured at    *)
(* press detection has more than one bit set, and a key number 1..8 only   *)
(* when exactly one key was pressed.                                       *)
(***************************************************************************)
C1_MultiKeyReturnsZero ==
    Returned("read_key_blocking") =>
        /\ PopCount(buttons) > 1 => ret = 0
        /\ ret \in 1..8 => PopCount(buttons) = 1

(***************************************************************************)
(* C9: from any register state, tm1638_display_clear sends the one-byte    *)
(* frame 0x40, then one frame holding 0xC0 and exactly 16 bytes 0x00, and  *)
(* leaves all 16 registers zero; a second call in a row leaves the same    *)
(* all-zero registers as the first.                                        *)
(***************************************************************************)
ClearFrames ==
    << <<64>>, <<192, 0, 0, 0, 0, 0, 0, 0, 0, 0, 0, 0, 0, 0, 0, 0, 0>> >>

C9_ClearZeroesAllRegisters ==
    [][Calls("display_clear") =>
          /\ chip'.frames = ClearFrames
          /\ chip'.regs = ZeroRegs
          /\ call.op = "display_clear" => chip'.regs = chip.regs]_vars

\* a clear that found registers not all zero, and a clear right after a clear
C9_Witness ==
    /\ Returned("display_clear")
    /\ nops = 2
    /\ chip.regs = ZeroRegs
    /\ Len(chip.frames) = 2

(***************************************************************************)
(* C4: for every brightness b in 0..255, tm1638_set_brightness(b) sends    *)
(* exactly one single-byte frame whose byte is 0x88 | min(b,7), and stores *)
(* min(b,7) in the brightness field of the handle.                         *)
(***************************************************************************)
Min7(b) == IF b < 7 THEN b ELSE 7

C4_SetBrightnessClamps ==
    Returned("set_brightness") =>
        LET b == call.args[1]
        IN  /\ chip.frames = << <<136 + Min7(b)>> >>
            /\ tm.brightness = Min7(b)

\* a brightness above 7 whose low three bits are not all set
C4_Witness ==
    /\ Returned("set_brightness")
    /\ call.args[1] = 200
    /\ chip.frames = << <<143>> >>
    /\ tm.brightness = 7

(***************************************************************************)
(* C5: for every brightness b in 0..255, tm1638_init(b) first performs the *)
(* full clear sequence and only afterwards sends the display-control       *)
(* command; that command byte is 0x88 | (b & 7) and the stored brightness  *)
(* is b & 7 (masked, not clamped).                                         *)
(***************************************************************************)
C5_InitClearsThenMasks ==
    Returned("init") =>
        LET b == call.args[1]
        IN  /\ chip.frames = ClearFrames \o << <<136 + (b % 8)>> >>
            /\ tm.brightness = b % 8

\* init(9) yields brightness 1, not 7
C5_Witness ==
    /\ Returned("init")
    /\ call.args[1] = 9
    /\ chip.frames[3] = <<137>>
    /\ tm.brightness = 1

(***************************************************************************)
(* C6: for all positions p in 1..8 the address byte sent by                *)
(* tm1638_set_segment is 0xC0 + 2*(p-1) (even register), the address byte  *)
(* sent by tm1638_set_led is 0xC0 + 2*p - 1 (the segment address + 1, odd  *)
(* register), both lie in 0xC0..0xCF, and the 16 addresses over p in 1..8  *)
(* are pairwise distinct and cover registers 0..15 exactly once.           *)
(***************************************************************************)
\* the address byte the chip received in the only frame of the operation
SentAddress == chip.frames[1][1]

C6_AddressesPartitionRegisters ==
    /\ (Returned("set_segment") /\ call.args[1] \in 1..8) =>
          /\ Len(chip.frames) = 1
          /\ SentAddress = 192 + 2 * (call.args[1] - 1)
          /\ SentAddress \in 192..207
          /\ (SentAddress - 192) % 2 = 0
    /\ (Returned("set_led") /\ call.args[1] \in 1..8) =>
          /\ Len(chip.frames) = 1
          /\ SentAddress = 192 + 2 * call.args[1] - 1
          /\ SentAddress = SegmentAddress(call.args[1]) + 1
          /\ SentAddress \in 192..207
          /\ (SentAddress - 192) % 2 = 1
    /\ {SegmentAddress(p) : p \in 1..8} \cup {LedAddress(p) : p \in 1..8}
          = 192..207
    /\ {SegmentAddress(p) : p \in 1..8} \cap {LedAddress(p) : p \in 1..8} = {}
    /\ \A p, q \in 1..8 :
          p /= q => /\ SegmentAddress(p) /= SegmentAddress(q)
                    /\ LedAddress(p) /= LedAddress(q)

\* the LED of the last position: the highest register, 0xCF
C6_Witness ==
    /\ Returned("set_led")
    /\ call.args[1] = 8
    /\ SentAddress = 207

(***************************************************************************)
(* C7: for every position p in 0..255 outside 1..8, tm1638_set_segment,    *)
(* tm1638_set_led and tm1638_display_char are complete no-ops: no strobe,  *)
(* clock or data pin is written, no byte reaches the chip, the 16 device   *)
(* registers and the handle are unchanged, and no error is reported.       *)
(***************************************************************************)
PositionOps == {"set_segment", "set_led", "display_char"}

C7_InvalidPositionIsNoOp ==
    [][(nops' = nops + 1 /\ call'.op \in PositionOps
        /\ call'.args[1] \notin 1..8) =>
          /\ bus' = <<>>
          /\ chip'.frames = <<>>
          /\ chip'.regs = chip.regs
          /\ SameChip(chip', chip)
          /\ tm' = tm
          /\ ret' = NoRet]_vars

\* position 0 after a valid write changed a register, and nothing happened
C7_Witness ==
    /\ Returned("display_char")
    /\ call.args[1] = 0
    /\ nops = 2
    /\ bus = <<>>
    /\ chip.regs /= PowerOnRegs

(***************************************************************************)
(* C10: with the chip in auto-increment write mode, for all p in 1..8 and  *)
(* all patterns d in 0..255, tm1638_set_segment(p,d) sends one frame       *)
(* [address, d] after which register 2*(p-1) holds d and the other 15      *)
(* registers are unchanged; tm1638_set_led(p,on) leaves register 2*p-1     *)
(* holding 1 if on else 0 and the other 15 registers unchanged.  So after  *)
(* any sequence of such writes each register holds the value of the last   *)
(* write addressed to it.                                                  *)
(***************************************************************************)
C10_WriteChangesOneRegister ==
    [][/\ (Calls("set_segment") /\ call'.args[1] \in 1..8
           /\ chip.datacmd = CMD_DATA_SET_AUTO_INC) =>
             LET p == call'.args[1]
                 d == call'.args[2]
             IN  /\ chip'.frames = << <<192 + 2 * (p - 1), d>> >>
                 /\ chip'.regs = [chip.regs EXCEPT ![2 * (p - 1)] = d]
       /\ (Calls("set_led") /\ call'.args[1] \in 1..8
           /\ chip.datacmd = CMD_DATA_SET_AUTO_INC) =>
             LET p == call'.args[1]
                 v == IF call'.args[2] THEN 1 ELSE 0
             IN  /\ chip'.frames = << <<192 + 2 * p - 1, v>> >>
                 /\ chip'.regs = [chip.regs EXCEPT ![2 * p - 1] = v]]_vars

\* a segment write and then an LED write: both registers hold their values
C10_Witness ==
    /\ Returned("set_led")
    /\ call.args = <<1, TRUE>>
    /\ chip.regs[1] = 1
    /\ chip.regs[4] = 90
    /\ \A r \in 0..15 : r \notin {1, 4} => chip.regs[r] = PowerOnRegs[r]

(***************************************************************************)
(* The layout a text should get: cell j (1..8) of a text with n non-dot    *)
(* characters shows non-dot character n - 8 + j, or a space if there is    *)
(* none, and its point is lit iff that character is followed by a dot.     *)
(***************************************************************************)
\* the places (1-based) of the non-dot characters of str, in order
NonDotPlaces(str) ==
    SelectSeq([i \in 1..Len(str) |-> i], LAMBDA i : str[i] /= DOT)

\* the place in str of the character cell j should show, 0 if none
CellPlace(str, j) ==
    LET places == NonDotPlaces(str)
        k == Len(places) - 8 + j
    IN  IF k >= 1 THEN places[k] ELSE 0

RightAlignedChar(str, j) ==
    IF CellPlace(str, j) = 0 THEN SPACE ELSE str[CellPlace(str, j)]

FollowedByDot(str, j) ==
    LET at == CellPlace(str, j)
    IN  at /= 0 /\ at < Len(str) /\ str[at + 1] = DOT

\* the pattern the chip received for cell j in the last operation
CellPattern(j) == chip.frames[j][2]

(***************************************************************************)
(* C2: in tm1638_display_txt a '.' attaches to the character immediately   *)
(* preceding it in the text: the dot-flag of a display cell is set if and  *)
(* only if the non-dot character placed in that cell is immediately        *)
(* followed by '.' in the input.                                           *)
(***************************************************************************)
C2_DotAttachesToPrecedingChar ==
    Returned("display_txt") =>
        \A j \in 1..8 :
            (CellPattern(j) \div 128 = 1) <=> FollowedByDot(call.args[1], j)

(***************************************************************************)
(* C3: tm1638_display_txt right-aligns a text of any length with n non-dot *)
(* characters: if n >= 8 the cells show the last 8 non-dot characters in   *)
(* order, if n < 8 the rightmost n cells show the n characters in order    *)
(* and the leftmost 8 - n cells are space.                                 *)
(***************************************************************************)
C3_RightAlignedAnyLength ==
    Returned("display_txt") =>
        \A j \in 1..8 :
            CellPattern(j) % 128
                = char_to_segment_code(RightAlignedChar(call.args[1], j))

(***************************************************************************)
(* C8: for every 32-sample sequence read by tm1638_scan_buttons, result    *)
(* bit i (0..7) is set if and only if raw bit {1,9,17,25,5,13,21,29}[i] is *)
(* set (raw bit k is the k-th sample clocked in); the other 24 raw bits    *)
(* never change the result, which is 0 when none of the 8 bits is set.     *)
(***************************************************************************)
KeyBitOf == <<1, 9, 17, 25, 5, 13, 21, 29>>

\* the levels sampled on the data line in the last operation, in order
Samples == SelectSeq(bus, LAMBDA e : e.op = "read")

C8_DecodeUsesEightFixedBits ==
    Returned("scan_buttons") =>
        /\ Len(Samples) = 32
        /\ ret \in 0..255
        /\ \A i \in 0..7 :
              (Bit(ret, i) = 1) <=> (Samples[KeyBitOf[i + 1] + 1].val = 1)

\* all 24 other samples high, no key sample high: the result is 0
C8_Witness ==
    /\ Returned("scan_buttons")
    /\ \A k \in 0..31 : (Samples[k + 1].val = 1) <=> (k \in OtherBits)
    /\ ret = 0

(***************************************************************************)
(* Observations of a key scan on the wires.                                *)
(***************************************************************************)
\* the key mask carried by the 32 samples of events (-1: no scan in events)
ScanMaskOf(events) ==
    LET samples == SelectSeq(events, LAMBDA e : e.op = "read")
        key(i) == IF samples[KeyBitOf[i + 1] + 1].val = 1 THEN Pow2(i) ELSE 0
    IN  IF Len(samples) /= 32 THEN -1
        ELSE key(0) + key(1) + key(2) + key(3)
             + key(4) + key(5) + key(6) + key(7)

\* the 1-based position of the lowest set bit of a non-zero mask
LowestSetBit(mask) ==
    CHOOSE n \in 1..8 :
        /\ Bit(mask, n - 1) = 1
        /\ \A k \in 1..(n - 1) : Bit(mask, k - 1) = 0

(***************************************************************************)
(* C11: tm1638_read_key_blocking has no timeout: it never returns while    *)
(* every scan so far has reported 0, and after a press it never returns    *)
(* while scans keep reporting non-zero; if some scan eventually reports    *)
(* non-zero and some later scan eventually reports 0 (the fairness of      *)
(* SpecKey), it eventually returns.                                        *)
(***************************************************************************)
C11_BlocksUntilPressAndRelease ==
    /\ [][/\ (pc = "wait_press" /\ pc' /= "wait_press") =>
                (ScanMaskOf(bus') > 0 /\ pc' = "wait_release" /\ ret' = NoRet)
          /\ (pc /= "idle" /\ pc' = "idle") =>
                (pc = "wait_release" /\ ScanMaskOf(bus') = 0)
          /\ (pc = "wait_release" /\ ScanMaskOf(bus') > 0) =>
                (pc' = "wait_release" /\ ret' = NoRet)]_vars
    /\ (pc /= "idle") ~> (pc = "idle")

\* a scan has reported 0 and the read is still waiting for a press
C11_Witness ==
    /\ call.op = "read_key_blocking"
    /\ pc = "wait_press"
    /\ ScanMaskOf(bus) = 0
    /\ ret = NoRet

FrameStep(f, e) ==
    IF e.op = "write" /\ e.pin = STB
    THEN IF e.val = 0
         THEN [f EXCEPT !.ok = f.ok /\ f.stb = 1, !.stb = 0, !.edges = 0]
         ELSE [f EXCEPT !.ok = f.ok /\ f.stb = 0 /\ f.edges > 0
                                /\ f.edges % 8 = 0,
                        !.stb = 1, !.frames = f.frames + 1]
    ELSE IF e.op = "write" /\ e.pin = CLK
    THEN [f EXCEPT !.ok = f.ok /\ f.stb = 0, !.clk = e.val,
                   !.edges = IF f.clk = 0 /\ e.val = 1
                             THEN f.edges + 1 ELSE f.edges]
    ELSE IF e.op \in {"write", "read"}
    THEN [f EXCEPT !.ok = f.ok /\ f.stb = 0]
    ELSE f

RECURSIVE FrameFold(_, _, _, _)
FrameFold(f, events, lo, hi) ==
    IF lo > hi THEN f
    ELSE IF lo = hi THEN FrameStep(f, events[lo])
    ELSE LET mid == (lo + hi) \div 2
             half == FrameFold(f, events, lo, mid)
         IN  IF half.stb \in {0, 1}
             THEN FrameFold(half, events, mid + 1, hi)
             ELSE half

\* strobe and clock idle high before the first event
Framing(events) ==
    FrameFold([stb |-> 1, clk |-> 1, edges |-> 0, frames |-> 0, ok |-> TRUE],
              events, 1, Len(events))

(***************************************************************************)
(* C12: in every public operation the strobe-low and strobe-high events    *)
(* alternate starting with strobe-low, every clock event and every write   *)
(* or sample of the data line happens while strobe is low, every frame     *)
(* carries a positive multiple of 8 clock pulses, and strobe is high when  *)
(* the operation returns.                                                  *)
(***************************************************************************)
C12_BusActivityIsFramed ==
    /\ Framing(bus).ok
    /\ Framing(bus).stb = 1
    /\ chip.stb = 1

\* a key scan has returned: one frame of 8 + 32 clock pulses
C12_Witness ==
    /\ Returned("scan_buttons")
    /\ Framing(bus).frames = 1
    /\ Framing(bus).edges = 40

(***************************************************************************)
(* Observation of one byte on the wires: ev is the slice of pin events of  *)
(* one tm1638_send_data; the clock is high before it.                      *)
(***************************************************************************)
\* the level last written to pin before event i of ev (idle if none)
LevelBefore(ev, pin, i, idle) ==
    LET js == {j \in 1..(i - 1) : ev[j].op = "write" /\ ev[j].pin = pin}
    IN  IF js = {} THEN idle
        ELSE ev[CHOOSE j \in js : \A k \in js : k <= j].val

\* the events of ev that raise the clock from low to high
RisingEdges(ev) ==
    {i \in 1..Len(ev) : /\ ev[i] = WritePin(CLK, 1)
                        /\ LevelBefore(ev, CLK, i, 1) = 0}

\* the pin events of the data byte of a tm1638_set_segment that wrote
DataByteEvents == SubSeq(bus, 26, 49)

(***************************************************************************)
(* C13: for every byte v, tm1638_send_data produces exactly 8 rising clock *)
(* edges, the data-line level at the k-th rising edge (k = 0..7) is bit k  *)
(* of v, the data line is written only while the clock is low, and the     *)
(* clock is high when the function returns. Observed on the data byte of   *)
(* tm1638_set_segment, whose pattern ranges over 0..255.                   *)
(***************************************************************************)
C13_SendDataIsLsbFirst ==
    (Returned("set_segment") /\ bus /= <<>>) =>
        LET ev == DataByteEvents
            v == call.args[2]
            edges == RisingEdges(ev)
        IN  /\ Len(bus) = 50
            /\ Cardinality(edges) = 8
            /\ \A i \in edges :
                  LevelBefore(ev, DIO, i, -1)
                      = Bit(v, Cardinality({j \in edges : j < i}))
            /\ \A i \in 1..Len(ev) :
                  (ev[i].op = "write" /\ ev[i].pin = DIO) =>
                      LevelBefore(ev, CLK, i, 1) = 0
            /\ \A i \in 1..Len(ev) : ev[i].op = "write"
            /\ LevelBefore(ev, CLK, Len(ev) + 1, 1) = 1

\* the byte 0xA5 (bits 0, 2, 5 and 7) has been sent
C13_Witness ==
    /\ Returned("set_segment")
    /\ bus /= <<>>
    /\ call.args[2] = 165
    /\ {LevelBefore(DataByteEvents, DIO, i, -1) :
            i \in RisingEdges(DataByteEvents)} = {0, 1}

(***************************************************************************)
(* Observation of the configuration of the data line on the wires.         *)
(***************************************************************************)
\* the reconfigurations of the data line among the events of the operation
ModeEvents == {j \in 1..Len(bus) : bus[j].op = "mode" /\ bus[j].pin = DIO}

\* the mode of the data line before event i; it is push-pull output when
\* the operation starts
ModeBefore(i) ==
    LET js == {j \in ModeEvents : j < i}
    IN  IF js = {} THEN GPIO_MODE_OUTPUT_PP
        ELSE bus[CHOOSE j \in js : \A k \in js : k <= j].val

\* the byte clocked out by the 24 pin events ev of one tm1638_send_data
ByteSent(ev) ==
    LET edges == RisingEdges(ev)
        bit(i) == LevelBefore(ev, DIO, i, 0)
                      * Pow2(Cardinality({j \in edges : j < i}))
        RECURSIVE Sum(_)
        Sum(S) == IF S = {} THEN 0
                  ELSE LET i == CHOOSE x \in S : TRUE
                       IN  bit(i) + Sum(S \ {i})
    IN  IF Cardinality(edges) = 8 THEN Sum(edges) ELSE -1

\* the events are exactly those of one key scan, in order
ScanSequence(events) ==
    /\ Len(events) = 124
    /\ events[1] = WritePin(STB, 0)
    /\ ByteSent(SubSeq(events, 2, 25)) = 66
    /\ \A i \in 2..25 : events[i].op = "write" /\ events[i].pin \in {CLK, DIO}
    /\ events[26] = [op |-> "mode", pin |-> DIO, val |-> GPIO_MODE_INPUT,
                     pull |-> GPIO_PULLUP]
    /\ \A k \in 0..31 :
          /\ events[27 + 3 * k] = WritePin(CLK, 0)
          /\ events[28 + 3 * k].op = "read"
          /\ events[28 + 3 * k].pin = DIO
          /\ events[29 + 3 * k] = WritePin(CLK, 1)
    /\ events[123] = WritePin(STB, 1)
    /\ events[124] = [op |-> "mode", pin |-> DIO, val |-> GPIO_MODE_OUTPUT_PP,
                      pull |-> GPIO_NOPULL]

(***************************************************************************)
(* C14: tm1638_scan_buttons performs, in order, strobe low, the byte 0x42, *)
(* data line to input with pull-up, 32 times (clock low, sample, clock     *)
(* high), strobe high, data line back to push-pull output; the data pin is *)
(* never written while configured as input nor sampled while configured as *)
(* output; and the data line is configured as output whenever an operation *)
(* returns.                                                                *)
(***************************************************************************)
C14_ScanSequenceAndDirection ==
    /\ Returned("scan_buttons") => ScanSequence(bus)
    /\ (call.op = "read_key_blocking" /\ bus /= <<>>) => ScanSequence(bus)
    /\ (call.op \notin {"scan_buttons", "read_key_blocking"}) =>
           ModeEvents = {}
    /\ \A i \in 1..Len(bus) :
          /\ (bus[i].op = "write" /\ bus[i].pin = DIO) =>
                 ModeBefore(i) = GPIO_MODE_OUTPUT_PP
          /\ bus[i].op = "read" =>
                 (bus[i].pin = DIO /\ ModeBefore(i) = GPIO_MODE_INPUT)
    /\ ModeBefore(Len(bus) + 1) = GPIO_MODE_OUTPUT_PP
    /\ chip.dir = GPIO_MODE_OUTPUT_PP

\* a second operation, a key scan that sampled a key, has returned
C14_Witness ==
    /\ Returned("scan_buttons")
    /\ nops = 2
    /\ ret /= 0
    /\ ModeEvents = {26, 124}
    /\ chip.dir = GPIO_MODE_OUTPUT_PP

(***************************************************************************)
(* C15: in every sequence of operations that begins with tm1638_init,      *)
(* whenever tm1638_set_segment, tm1638_set_led, tm1638_display_char or     *)
(* tm1638_display_txt sends a register-write frame, the most recent data   *)
(* command byte sent to the chip before it is the auto-increment write     *)
(* command 0x40, also after a key scan.                                    *)
(***************************************************************************)
RegisterWriters == {"set_segment", "set_led", "display_char", "display_txt"}

C15_WriteModeAtEveryRegisterWrite ==
    (call.op \in RegisterWriters /\ pc = "idle" /\ chip.frames /= <<>>) =>
        /\ \A j \in 1..Len(chip.frames) :
              chip.frames[j][1] \in 192..207 /\ Len(chip.frames[j]) = 2
        /\ chip.datacmd = CMD_DATA_SET_AUTO_INC

(***************************************************************************)
(* C17: after any sequence of operations starting with tm1638_init, the    *)
(* brightness field of the handle is in 0..7 and equals the low 3 bits of  *)
(* the last display-control command byte sent to the chip; only            *)
(* tm1638_init and tm1638_set_brightness change the handle, they change    *)
(* only its brightness field, and every other operation leaves every       *)
(* field of the handle unchanged.                                          *)
(***************************************************************************)
C17_BrightnessTracksDisplayControl ==
    /\ [](nops > 0 => /\ tm.brightness \in 0..7
                      /\ chip.ctrl \div 64 = 2
                      /\ tm.brightness = chip.ctrl % 8)
    /\ [][/\ tm' /= tm =>
                (nops' = nops + 1 /\ call'.op \in {"init", "set_brightness"})
          /\ tm' = [tm EXCEPT !.brightness = tm'.brightness]]_vars

\* set_brightness(9) after init: 7 is stored and sent
C17_Witness ==
    /\ Returned("set_brightness")
    /\ nops > 1
    /\ call.args[1] = 9
    /\ tm.brightness = 7
    /\ chip.ctrl = 143

(***************************************************************************)
(* C18: for all p in 1..8, all characters c and both dot values,           *)
(* tm1638_display_char(p,c,dot) sends one write frame for segment register *)
(* 2*(p-1) whose pattern has char_to_segment_code(c) in bits 0..6 and bit 7 *)
(* set iff dot; the encoder never sets bit 7 and gives 0x00 for unmapped   *)
(* characters.  tm1638_display_txt sends exactly 8 such frames, for        *)
(* positions 1..8 in ascending order, and writes no LED (odd) register.    *)
(* With the chip in write mode the addressed register takes the pattern.   *)
(***************************************************************************)
CharsOf(str) == {str[i] : i \in 1..Len(str)} \cup {SPACE}

C18_CharFramesCarryCodeAndDot ==
    [][/\ (Calls("display_char") /\ call'.args[1] \in 1..8) =>
             LET p == call'.args[1]
                 c == call'.args[2]
                 dot == call'.args[3]
                 code == char_to_segment_code(c)
                 pattern == code + (IF dot THEN 128 ELSE 0)
             IN  /\ code \in 0..127
                 /\ c \notin DOMAIN SegmentTable => code = 0
                 /\ chip'.frames = << <<192 + 2 * (p - 1), pattern>> >>
                 /\ chip.datacmd = CMD_DATA_SET_AUTO_INC =>
                       chip'.regs = [chip.regs EXCEPT ![2 * (p - 1)] = pattern]
       /\ Calls("display_txt") =>
             /\ Len(chip'.frames) = 8
             /\ \A j \in 1..8 :
                   /\ Len(chip'.frames[j]) = 2
                   /\ chip'.frames[j][1] = 192 + 2 * (j - 1)
                   /\ chip'.frames[j][2] % 128 \in
                          {char_to_segment_code(c) : c \in CharsOf(call'.args[1])}
                   /\ chip.datacmd = CMD_DATA_SET_AUTO_INC =>
                          chip'.regs[2 * (j - 1)] = chip'.frames[j][2]
             /\ \A r \in 0..15 : r % 2 = 1 => chip'.regs[r] = chip.regs[r]]_vars

\* 'A' with the dot at position 3: register 4 holds 0x77 | 0x80
C18_Witness ==
    /\ Returned("display_char")
    /\ call.args = <<3, 65, TRUE>>
    /\ chip.frames = << <<196, 247>> >>
    /\ chip.regs[4] = 247

(***************************************************************************)
(* C19 as stated: each of the letters A, B, C, D, E, F, G, H, I, J, L, O,  *)
(* P, S, U encodes to a non-blank pattern in both its uppercase and its    *)
(* lowercase form.                                                         *)
(***************************************************************************)
ListedUpper == {65, 66, 67, 68, 69, 70, 71, 72, 73, 74, 76, 79, 80, 83, 85}
ListedLower == {c + 32 : c \in ListedUpper}
BlankLower == {101, 106, 108, 112, 115}

C19_BothCasesSupported ==
    (Returned("display_char") /\ call.args[1] \in 1..8
     /\ call.args[2] \in ListedUpper \cup ListedLower) =>
        chip.frames[1][2] % 128 /= 0

(***************************************************************************)
(* C19 amended: each of the letters A, B, C, D, E, F, G, H, I, J, L, O, P, *)
(* S, U encodes to a non-blank pattern in its uppercase form; of their     *)
(* lowercase forms a, b, c, d, f, g, h, i, o, u encode to a non-blank      *)
(* pattern and e, j, l, p, s encode to the blank pattern 0x00.             *)
(***************************************************************************)
C19_SupportedCases ==
    (Returned("display_char") /\ call.args[1] \in 1..8) =>
        LET c == call.args[2]
            code == chip.frames[1][2] % 128
        IN  /\ c \in ListedUpper => code /= 0
            /\ c \in ListedLower \ BlankLower => code /= 0
            /\ c \in BlankLower => code = 0

\* lowercase 'e' has been displayed: the cell is blank
C19_Witness ==
    /\ Returned("display_char")
    /\ call.args = <<8, 101, FALSE>>
    /\ chip.frames = << <<206, 0>> >>

(***************************************************************************)
(* C20: for every text length, also above 127 where the int8_t length and  *)
(* index wrap, the backward scan of tm1638_display_txt reads str only at   *)
(* indices 0..n-1 of the n characters of the text, writes display_buf and  *)
(* dots only at indices 0..7, and terminates (the loop test is false after *)
(* at most 128 iterations, each of which reads a new index).               *)
(***************************************************************************)
C20_ScanStaysInBounds ==
    Returned("display_txt") =>
        LET str == call.args[1]
            lay == Layout(str)
        IN  /\ lay.reads \subseteq 0..(Len(str) - 1)
            /\ lay.writes \subseteq 0..7
            /\ ~ScanCond(lay)
            /\ Cardinality(lay.reads) <= 128
            /\ DOMAIN lay.display_buf = 0..7
            /\ DOMAIN lay.dots = 0..7
            /\ Len(bus) = 8 * 50

\* a text of 128 characters: len wraps to -128 and str_idx to 127
C20_Witness ==
    /\ Returned("display_txt")
    /\ Len(call.args[1]) = 128
    /\ LET lay == Layout(call.args[1])
       IN  lay.reads = 120..127 /\ lay.writes = 0..7

====
